---- MODULE Spec2Model ----
(***************************************************************************)
(* Model of msassembler.py, the two-pass assembler for the "Maquina        *)
(* Sencilla".  A text is a sequence of one-character strings; a source     *)
(* file is a sequence of lines as Python's file iteration yields them      *)
(* (each line keeps its trailing "\n", the last one may lack it).          *)
(*                                                                         *)
(* The character set of the modelled sources is: letters, decimal digits,  *)
(* space, tab, newline and the marks  : # / @ ,  .  The string operators   *)
(* below follow Python's str methods on that character set.                *)
(***************************************************************************)
EXTENDS Integers, Sequences, FiniteSets, TLC

(***************************************************************************)
(* Bounds of the model.                                                    *)
(***************************************************************************)
\* Longest sequence of catalogue lines in a source.
MaxLines == 3
\* Number of "MOV <const> <const>" lines put before a one-line tail, to
\* fill the data region (two fresh constants per line).
MaxFill == 14

(***************************************************************************)
(* Python str methods.                                                     *)
(***************************************************************************)
LowerLetters ==
    <<"a","b","c","d","e","f","g","h","i","j","k","l","m",
      "n","o","p","q","r","s","t","u","v","w","x","y","z">>
UpperLetters ==
    <<"A","B","C","D","E","F","G","H","I","J","K","L","M",
      "N","O","P","Q","R","S","T","U","V","W","X","Y","Z">>
DecimalDigits ==
    <<"0","1","2","3","4","5","6","7","8","9">>

Range(s) == { s[i] : i \in 1..Len(s) }

IndexIn(seq, c) == CHOOSE i \in 1..Len(seq) : seq[i] = c

IsDigit(c) == c \in Range(DecimalDigits)
IsLetter(c) == c \in Range(LowerLetters) \cup Range(UpperLetters)
IsSpace(c) == c \in {" ", "\t", "\n"}

\* c.upper() / c.lower() of one character
UpperChar(c) ==
    IF c \in Range(LowerLetters) THEN UpperLetters[IndexIn(LowerLetters, c)] ELSE c
LowerChar(c) ==
    IF c \in Range(UpperLetters) THEN LowerLetters[IndexIn(UpperLetters, c)] ELSE c

\* s.upper(), s.lower()
upper(s) == [i \in 1..Len(s) |-> UpperChar(s[i])]
lower(s) == [i \in 1..Len(s) |-> LowerChar(s[i])]

\* s.isnumeric(), s.isalnum(): false on the empty string
isnumeric(s) == Len(s) > 0 /\ \A i \in 1..Len(s) : IsDigit(s[i])
isalnum(s) == Len(s) > 0 /\ \A i \in 1..Len(s) : IsDigit(s[i]) \/ IsLetter(s[i])

\* c in s
contains(s, c) == \E i \in 1..Len(s) : s[i] = c

\* s.find(c): zero-based index of the first c, or -1
find(s, c) ==
    IF contains(s, c)
    THEN (CHOOSE i \in 1..Len(s) : s[i] = c /\ \A j \in 1..(i-1) : s[j] # c) - 1
    ELSE -1

\* s[:n] and s[n:] for 0 <= n
slice_to(s, n) == SubSeq(s, 1, IF n < Len(s) THEN n ELSE Len(s))
slice_from(s, n) == SubSeq(s, n + 1, Len(s))

RECURSIVE lstrip(_)
lstrip(s) ==
    IF Len(s) > 0 /\ IsSpace(s[1]) THEN lstrip(Tail(s)) ELSE s

RECURSIVE rstrip(_)
rstrip(s) ==
    IF Len(s) > 0 /\ IsSpace(s[Len(s)]) THEN rstrip(SubSeq(s, 1, Len(s) - 1)) ELSE s

strip(s) == rstrip(lstrip(s))

\* s.replace("  ", " "): one left-to-right pass over non-overlapping pairs
RECURSIVE replace_double_space(_)
replace_double_space(s) ==
    IF Len(s) = 0 THEN << >>
    ELSE IF Len(s) >= 2 /\ s[1] = " " /\ s[2] = " "
         THEN <<" ">> \o replace_double_space(SubSeq(s, 3, Len(s)))
         ELSE <<s[1]>> \o replace_double_space(Tail(s))

\* s.replace(c, '')
remove_char(s, c) == SelectSeq(s, LAMBDA x : x # c)

\* s.replace(a, b) for single characters a, b
replace_char(s, a, b) == [i \in 1..Len(s) |-> IF s[i] = a THEN b ELSE s[i]]

\* s.split(c): always at least one (possibly empty) field
RECURSIVE split(_, _)
split(s, c) ==
    IF ~contains(s, c) THEN <<s>>
    ELSE <<slice_to(s, find(s, c))>> \o split(slice_from(s, find(s, c) + 1), c)

\* int(s) for a string of decimal digits
RECURSIVE int(_)
int(s) ==
    IF Len(s) = 0 THEN 0
    ELSE 10 * int(SubSeq(s, 1, Len(s) - 1)) + (IndexIn(DecimalDigits, s[Len(s)]) - 1)

\* int(s) raises ValueError unless s is a non-empty string of digits
\* (signs, underscores and inner blanks are outside the character set)
int_raises(s) == ~isnumeric(s)

\* bin(n)[2:] for n >= 0
RECURSIVE bin(_)
bin(n) ==
    IF n < 2 THEN <<DecimalDigits[n + 1]>>
    ELSE bin(n \div 2) \o <<DecimalDigits[(n % 2) + 1]>>

\* s.zfill(w)
zfill(s, w) ==
    IF Len(s) >= w THEN s ELSE [i \in 1..(w - Len(s)) |-> "0"] \o s

(***************************************************************************)
(* Module-level tables of msassembler.py.                                  *)
(***************************************************************************)
ADD == <<"A","D","D">>
MOV == <<"M","O","V">>
CMP == <<"C","M","P">>
BEQ == <<"B","E","Q">>
IN_ == <<"I","N">>
OUT == <<"O","U","T">>

OPERATIONS == {ADD, MOV, CMP, BEQ, IN_, OUT}

OPERAND_NUMBER ==
    (ADD :> 2) @@ (MOV :> 2) @@ (CMP :> 2) @@ (BEQ :> 1) @@ (IN_ :> 2) @@ (OUT :> 2)

LABEL_SEPARATOR == ":"

src_start == 0
data_start == 100

opcodes ==
    (ADD :> <<"0","0">>) @@ (CMP :> <<"0","1">>) @@ (MOV :> <<"1","0">>)
    @@ (BEQ :> <<"1","1">>) @@ (IN_ :> <<"1","1","1","0">>)
    @@ (OUT :> <<"1","1","1","1">>)

\* (2**7)-1, the largest address an explicit '@' operand is clamped to
MaxAddress == 127
\* the D field is padded to 7 characters; opcode and F share (2 + 7)
DWidth == 7
OpcodeFWidth == 9

(***************************************************************************)
(* The source files the model runs on.                                     *)
(***************************************************************************)
NL == <<"\n">>

\* decimal text of n >= 0 (str(n)); used to write the filler lines
RECURSIVE Dec(_)
Dec(n) ==
    IF n < 10 THEN <<DecimalDigits[n + 1]>>
    ELSE Dec(n \div 10) \o <<DecimalDigits[(n % 10) + 1]>>

\* Line bodies (without the newline) of the catalogue.
Bodies ==
    { <<"l","p",":"," ","A","D","D"," ","@","1"," ","x">>,   \* lp: ADD @1 x
      <<"B","E","Q"," ","l","p">>,                           \* BEQ lp
      <<"B","E","Q"," ","l","p"," ","x">>,                   \* BEQ lp x
      <<" ","L","p",":"," ","M","O","V"," ","x",","," ","1">>, \*  Lp: MOV x, 1
      <<"B","E","Q"," ","L","p">>,                           \* BEQ Lp
      << >>,                                                 \* (blank line)
      <<"#"," ","c">>,                                       \* # c
      <<" ","#","c">>,                                       \*  #c
      <<"l","p",":">>,                                       \* lp:
      <<"l","p",":","#","c">>,                               \* lp:#c
      <<"X","Y","Z"," ","1"," ","2">>,                       \* XYZ 1 2
      <<"A","D","D"," ","1">>,                               \* ADD 1
      <<"I","N"," ","3","2"," ","5">>,                       \* IN 32 5
      <<"O","U","T"," ","@","1"," ","x">>,                   \* OUT @1 x
      <<"A","D","D"," ","@"," ","z">>,                       \* ADD @ z
      <<"o","u","t","\t"," "," ","3",",","7">>,              \* out<TAB>  3,7
      <<"M","O","V"," ","@","1","2","8"," ","@","1","2","7">>, \* MOV @128 @127
      <<"/"," ","C","M","P"," ","y"," ","2">> }              \* / CMP y 2

\* Bodies that may end the file without a newline.
Unterminated ==
    { <<"l","p",":">>,                                       \* lp:
      <<"B","E","Q"," ","l","p">> }                          \* BEQ lp

\* All sequences of at most n catalogue lines, each with its newline.
RECURSIVE LineSeqs(_)
LineSeqs(n) ==
    IF n = 0 THEN { << >> }
    ELSE LET shorter == LineSeqs(n - 1)
         IN  shorter \cup { Append(s, b \o NL) : s \in shorter, b \in Bodies }

\* MOV 0 1 / MOV 2 3 / ... : n lines, two fresh constants each.
Filler(n) ==
    [i \in 1..n |-> MOV \o <<" ">> \o Dec(2 * (i - 1)) \o <<" ">> \o Dec(2 * i - 1) \o NL]

Sources ==
    LineSeqs(MaxLines)
    \cup { Append(s, u) : s \in LineSeqs(MaxLines - 1), u \in Unterminated }
    \cup { Append(Filler(MaxFill), b \o NL) : b \in Bodies }

(***************************************************************************)
(* State of one run of Assembler.__init__ (non-verbose mode).              *)
(***************************************************************************)
VARIABLES
    source,           \* the lines of the input file
    pc,               \* "parseLabels", "parseInstructions", "assemble",
                      \* "done", "aborted" (exit(-1)), "crashed" (uncaught exception)
    file_pos,         \* lines already yielded by the file iterator
    labels,           \* self._labels
    variables,        \* self._variables
    constants,        \* self._constants
    data_pointer,     \* self._data_pointer
    current_address,  \* local of _parseLabels
    current_line,     \* local of _parseInstructions
    res,              \* local of _parseInstructions, then `operations`
    op_index,         \* instructions already taken by the loop of _assemble
    output,           \* lines printed to self._output_file
    message           \* what _abort printed, or the uncaught exception

vars ==
    <<source, pc, file_pos, labels, variables, constants, data_pointer,
      current_address, current_line, res, op_index, output, message>>

EmptyMap == [k \in {} |-> 0]
NoMessage == [kind |-> "none"]

(***************************************************************************)
(* Assembler methods.                                                      *)
(***************************************************************************)
hasLabel(line) == contains(line, LABEL_SEPARATOR)

\* Mutant of getLabel: the name is kept as written (no lower()).
getLabel_NoLower(line) == lstrip(slice_to(line, find(line, LABEL_SEPARATOR)))

getLabel(line) == lower(lstrip(slice_to(line, find(line, LABEL_SEPARATOR))))

labelDefined(label, L) == label \in DOMAIN L

\* Mutant of clampAddress: the address is returned as parsed.
clampAddress_None(address) == address

\* min((2**7)-1, address)
clampAddress(address) == IF MaxAddress < address THEN MaxAddress ELSE address

\* Mutant of allocate: the data pointer is not advanced.
allocate_NoAdvance(M, identifier, dp) ==
    [map |-> M @@ (identifier :> dp), data_pointer |-> dp]

\* M[identifier] = self._data_pointer; self._data_pointer += 1
allocate(M, identifier, dp) ==
    [map |-> M @@ (identifier :> dp), data_pointer |-> dp + 1]

\* _getIdLocation on the symbol table (L, V, C, dp): the address returned
\* and the table it leaves; raised = TRUE when int() raises ValueError.
getIdLocation(identifier, L, V, C, dp) ==
    IF identifier \in DOMAIN L
    THEN [raised |-> FALSE, address |-> L[identifier],
          variables |-> V, constants |-> C, data_pointer |-> dp]
    ELSE IF isnumeric(identifier)
    THEN LET a == IF identifier \notin DOMAIN C
                  THEN allocate(C, identifier, dp)
                  ELSE [map |-> C, data_pointer |-> dp]
         IN  [raised |-> FALSE, address |-> a.map[identifier],
              variables |-> V, constants |-> a.map, data_pointer |-> a.data_pointer]
    ELSE IF contains(identifier, "@")
    THEN IF int_raises(remove_char(identifier, "@"))
         THEN [raised |-> TRUE, address |-> 0,
               variables |-> V, constants |-> C, data_pointer |-> dp]
         ELSE [raised |-> FALSE,
               address |-> clampAddress(int(remove_char(identifier, "@"))),
               variables |-> V, constants |-> C, data_pointer |-> dp]
    ELSE LET a == IF identifier \notin DOMAIN V
                  THEN allocate(V, identifier, dp)
                  ELSE [map |-> V, data_pointer |-> dp]
         IN  [raised |-> FALSE, address |-> a.map[identifier],
              variables |-> a.map, constants |-> C, data_pointer |-> a.data_pointer]

getOpcode(instruction) == opcodes[instruction]

\* Does the scan pass count this line?  (line[0] not in ['#', '/'])
countsLine(line) == line[1] \notin {"#", "/"}

\* "Stripping comments" of _parseInstructions
stripComment(line) ==
    IF find(line, "#") # -1 THEN slice_to(line, find(line, "#")) ELSE line

\* "Skipping leading label"
skipLabel(line) ==
    IF hasLabel(line) THEN slice_from(line, find(line, LABEL_SEPARATOR) + 1) ELSE line

\* "Cleaning extra white-space" and the token list
tokenize(line) ==
    SelectSeq(
        split(replace_char(strip(remove_char(replace_double_space(line), "\t")),
                           " ", ","),
              ","),
        LAMBDA t : isalnum(t) \/ contains(t, "@"))

\* One iteration of the loop of _parseInstructions on a raw line:
\*   skip         the line is dropped (continue)
\*   IndexError   tokens[0] on an empty token list
\*   unknown      _abort("Error: unknown operation ...")
\*   missing      _abort("Error: missing operand/s ...")
\*   instruction  res.append(instruction)
parseLine(raw) ==
    LET line == stripComment(raw)
        rest == skipLabel(line)
        tokens == tokenize(rest)
        operation == upper(tokens[1])
    IN  IF Len(line) = 0 THEN [kind |-> "skip"]
        ELSE IF hasLabel(line) /\ Len(rest) = 0 THEN [kind |-> "skip"]
        ELSE IF Len(tokens) = 0 THEN [kind |-> "IndexError"]
        ELSE IF operation \notin OPERATIONS THEN [kind |-> "unknown"]
        ELSE IF Len(tokens) < OPERAND_NUMBER[operation] + 1
             THEN [kind |-> "missing", operation |-> operation]
        ELSE [kind |-> "instruction",
              instruction |-> IF Len(tokens) > 2
                              THEN <<operation, tokens[2], tokens[3]>>
                              ELSE <<operation, tokens[2]>>]

\* The body of the loop of _assemble on instruction o with the symbol
\* table (L, V, C, dp): the word printed and the table it leaves, or
\* raised = TRUE when int() raises ValueError (the table keeps what the
\* D lookup allocated before the F lookup raised).
assembleOne(o, L, V, C, dp) ==
    LET mnemonic == upper(o[1])
        opcode == getOpcode(mnemonic)
        hasF == Len(o) # 2
        D_operand == IF hasF THEN o[3] ELSE o[2]
        F_operand == o[2]
        isIO == mnemonic \in {IN_, OUT}
        dLoc == getIdLocation(D_operand, L, V, C, dp)
        dRaised == IF isIO THEN int_raises(D_operand) ELSE dLoc.raised
        afterD == IF isIO
                  THEN [variables |-> V, constants |-> C, data_pointer |-> dp]
                  ELSE [variables |-> dLoc.variables, constants |-> dLoc.constants,
                        data_pointer |-> dLoc.data_pointer]
        D == bin(IF isIO THEN int(D_operand) ELSE dLoc.address)
        fLoc == getIdLocation(F_operand, L, afterD.variables, afterD.constants,
                              afterD.data_pointer)
        fRaised == hasF /\ (IF isIO THEN int_raises(F_operand) ELSE fLoc.raised)
        afterF == IF hasF /\ ~isIO
                  THEN [variables |-> fLoc.variables, constants |-> fLoc.constants,
                        data_pointer |-> fLoc.data_pointer]
                  ELSE afterD
        F == IF ~hasF THEN bin(0)
             ELSE IF isIO THEN bin(int(F_operand))
             ELSE bin(fLoc.address)
    IN  IF dRaised
        THEN [raised |-> TRUE, word |-> << >>, variables |-> V, constants |-> C,
              data_pointer |-> dp]
        ELSE IF fRaised
        THEN [raised |-> TRUE, word |-> << >>, variables |-> afterD.variables,
              constants |-> afterD.constants, data_pointer |-> afterD.data_pointer]
        ELSE [raised |-> FALSE,
              word |-> opcode \o zfill(F, OpcodeFWidth - Len(opcode)) \o zfill(D, DWidth),
              variables |-> afterF.variables, constants |-> afterF.constants,
              data_pointer |-> afterF.data_pointer]

(***************************************************************************)
(* The run.                                                                *)
(***************************************************************************)
Init ==
    /\ source \in Sources
    /\ pc = "parseLabels"
    /\ file_pos = 0
    /\ labels = EmptyMap
    /\ variables = EmptyMap
    /\ constants = EmptyMap
    /\ data_pointer = data_start
    /\ current_address = src_start
    /\ current_line = 1
    /\ res = << >>
    /\ op_index = 0
    /\ output = << >>
    /\ message = NoMessage

\* One iteration of the loop of _parseLabels.
parseLabelsStep ==
    /\ pc = "parseLabels"
    /\ file_pos < Len(source)
    /\ LET line == source[file_pos + 1]
           label == getLabel(line)
       IN  IF hasLabel(line) /\ labelDefined(label, labels)
           THEN /\ pc' = "aborted"
                /\ message' = [kind |-> "multiple definitions", label |-> label]
                /\ UNCHANGED <<file_pos, labels, current_address>>
           ELSE /\ labels' = IF hasLabel(line)
                             THEN labels @@ (label :> current_address)
                             ELSE labels
                /\ current_address' = IF countsLine(line)
                                      THEN current_address + 1
                                      ELSE current_address
                /\ file_pos' = file_pos + 1
                /\ UNCHANGED <<pc, message>>
    /\ UNCHANGED <<source, variables, constants, data_pointer, current_line,
                   res, op_index, output>>

\* Mutant of parseLabelsReturn: the line counter starts at 0.
parseLabelsReturn_FromZero ==
    /\ pc = "parseLabels"
    /\ file_pos = Len(source)
    /\ pc' = "parseInstructions"
    /\ file_pos' = 0
    /\ res' = << >>
    /\ current_line' = 0
    /\ UNCHANGED <<source, labels, variables, constants, data_pointer,
                   current_address, op_index, output, message>>

\* _parseLabels returns; _parseInstructions starts (res, current_line, seek(0)).
parseLabelsReturn ==
    /\ pc = "parseLabels"
    /\ file_pos = Len(source)
    /\ pc' = "parseInstructions"
    /\ file_pos' = 0
    /\ res' = << >>
    /\ current_line' = 1
    /\ UNCHANGED <<source, labels, variables, constants, data_pointer,
                   current_address, op_index, output, message>>

\* One iteration of the loop of _parseInstructions.
parseInstructionsStep ==
    /\ pc = "parseInstructions"
    /\ file_pos < Len(source)
    /\ LET r == parseLine(source[file_pos + 1])
       IN  CASE r.kind = "skip" ->
                    /\ current_line' = current_line + 1
                    /\ file_pos' = file_pos + 1
                    /\ UNCHANGED <<pc, res, message>>
             [] r.kind = "instruction" ->
                    /\ res' = Append(res, r.instruction)
                    /\ current_line' = current_line + 1
                    /\ file_pos' = file_pos + 1
                    /\ UNCHANGED <<pc, message>>
             [] r.kind = "unknown" ->
                    /\ pc' = "aborted"
                    /\ message' = [kind |-> "unknown operation", line |-> current_line]
                    /\ UNCHANGED <<current_line, file_pos, res>>
             [] r.kind = "missing" ->
                    /\ pc' = "aborted"
                    /\ message' = [kind |-> "missing operand/s",
                                   operation |-> r.operation, line |-> current_line]
                    /\ UNCHANGED <<current_line, file_pos, res>>
             [] r.kind = "IndexError" ->
                    /\ pc' = "crashed"
                    /\ message' = [kind |-> "IndexError"]
                    /\ UNCHANGED <<current_line, file_pos, res>>
    /\ UNCHANGED <<source, labels, variables, constants, data_pointer,
                   current_address, op_index, output>>

\* _parseInstructions returns res; _assemble starts.
parseInstructionsReturn ==
    /\ pc = "parseInstructions"
    /\ file_pos = Len(source)
    /\ pc' = "assemble"
    /\ op_index' = 0
    /\ UNCHANGED <<source, file_pos, labels, variables, constants, data_pointer,
                   current_address, current_line, res, output, message>>

\* One iteration of the loop of _assemble.
assembleStep ==
    /\ pc = "assemble"
    /\ op_index < Len(res)
    /\ LET a == assembleOne(res[op_index + 1], labels, variables, constants,
                            data_pointer)
       IN  /\ variables' = a.variables
           /\ constants' = a.constants
           /\ data_pointer' = a.data_pointer
           /\ IF a.raised
              THEN /\ pc' = "crashed"
                   /\ message' = [kind |-> "ValueError"]
                   /\ UNCHANGED <<op_index, output>>
              ELSE /\ output' = Append(output, a.word)
                   /\ op_index' = op_index + 1
                   /\ UNCHANGED <<pc, message>>
    /\ UNCHANGED <<source, file_pos, labels, current_address, current_line, res>>

\* _assemble returns; __init__ returns.
assembleReturn ==
    /\ pc = "assemble"
    /\ op_index = Len(res)
    /\ pc' = "done"
    /\ UNCHANGED <<source, file_pos, labels, variables, constants, data_pointer,
                   current_address, current_line, res, op_index, output, message>>

Next ==
    \/ parseLabelsStep
    \/ parseLabelsReturn
    \/ parseInstructionsStep
    \/ parseInstructionsReturn
    \/ assembleStep
    \/ assembleReturn

Spec == Init /\ [][Next]_vars

(***************************************************************************)
(* Vocabulary of the properties.                                           *)
(***************************************************************************)
\* value of a string of binary digits
RECURSIVE FromBits(_)
FromBits(w) ==
    IF Len(w) = 0 THEN 0
    ELSE 2 * FromBits(SubSeq(w, 1, Len(w) - 1)) + (IF w[Len(w)] = "1" THEN 1 ELSE 0)

Least(S) == CHOOSE n \in S : \A m \in S : n <= m

\* The instructions whose word has been emitted, by position.
Emitted == 1..Len(output)

IsIO(o) == o[1] \in {IN_, OUT}
Operands(o) == { o[k] : k \in 2..Len(o) }

\* Entries of the data region: <<map, key>>.
DataEntries ==
    { <<"variable", k>> : k \in DOMAIN variables }
    \cup { <<"constant", k>> : k \in DOMAIN constants }
EntryAddress(e) == IF e[1] = "variable" THEN variables[e[2]] ELSE constants[e[2]]

\* An explicit-address token @n that is not a label name, and min(n, 127).
IsExplicit(tok) ==
    /\ Len(tok) >= 2 /\ tok[1] = "@" /\ isnumeric(Tail(tok))
    /\ tok \notin DOMAIN labels
ExplicitValue(tok) ==
    IF int(Tail(tok)) <= 127 THEN int(Tail(tok)) ELSE 127

\* The address a token that has been resolved stands for.
HeldAddress(tok) ==
    IF tok \in DOMAIN labels THEN labels[tok]
    ELSE IF tok \in DOMAIN constants THEN constants[tok]
    ELSE IF IsExplicit(tok) THEN ExplicitValue(tok)
    ELSE variables[tok]

\* Text before the first ':' of a line that defines a label, as written
\* (left-trimmed), and the name it stands for (lower-cased as well).
SpelledLabel(line) == lstrip(SubSeq(line, 1, find(line, ":")))
LabelName(line) == lower(SpelledLabel(line))
LabelLines == { i \in 1..Len(source) : contains(source[i], ":") }

\* Lines the encode pass turns into an instruction, and the positions the
\* two passes give a line.
Emits(i) == parseLine(source[i]).kind = "instruction"
EmitPosition(i) == Cardinality({ j \in 1..(i - 1) : Emits(j) })
ScanAddress(i) == Cardinality({ j \in 1..(i - 1) : source[j][1] \notin {"#", "/"} })

\* A line that holds nothing once comment, label and blanks are taken off.
IsBlank(line) == strip(skipLabel(stripComment(line))) = << >>

(***************************************************************************)
(* C1.  Every word emitted for ADD, CMP or MOV is exactly 16 bits (2-bit   *)
(* opcode, 7-bit F, 7-bit D), however many lines precede it and however    *)
(* many variables and constants are already in the data region.            *)
(* Fails: the 29th identifier of the data region gets address 128.         *)
(***************************************************************************)
C1_WordIs16Bits ==
    \A i \in Emitted :
        res[i][1] \in {ADD, CMP, MOV} => Len(output[i]) = OpcodeFWidth + DWidth

(***************************************************************************)
(* C2.  Every word emitted for IN or OUT with two decimal literals is      *)
(* exactly 16 bits: the 4-bit opcode, a 5-bit F holding the first literal, *)
(* a 7-bit D holding the second.  Fails for a first literal above 31 or a  *)
(* second above 127.                                                       *)
(***************************************************************************)
C2_IOWordIs16Bits ==
    \A i \in Emitted :
        (IsIO(res[i]) /\ isnumeric(res[i][2]) /\ isnumeric(res[i][3])) =>
            /\ Len(output[i]) = OpcodeFWidth + DWidth
            /\ SubSeq(output[i], 1, 4) = opcodes[res[i][1]]
            /\ FromBits(SubSeq(output[i], 5, OpcodeFWidth)) = int(res[i][2])
            /\ FromBits(SubSeq(output[i], OpcodeFWidth + 1, Len(output[i])))
                   = int(res[i][3])

(***************************************************************************)
(* C3.  The word of every accepted BEQ line is '11', seven 0 bits, then    *)
(* the 7-bit address of its first operand token; later operand tokens do   *)
(* not affect the word.  Fails for a BEQ line with a second operand token. *)
(***************************************************************************)
C3_BEQWord ==
    \A i \in Emitted :
        res[i][1] = BEQ =>
            output[i] = <<"1","1">> \o <<"0","0","0","0","0","0","0">>
                        \o zfill(bin(HeldAddress(res[i][2])), DWidth)

(***************************************************************************)
(* C4.  A source with unique labels whose instruction lines all have a     *)
(* recognized mnemonic and enough operands reaches Done, with as many      *)
(* words as lines that are not blank after comment and label stripping;    *)
(* blank, whitespace-only, label-only and whitespace-then-comment lines    *)
(* do not stop the run.  Fails: such a line raises IndexError.             *)
(***************************************************************************)
UniqueLabels ==
    \A i, j \in LabelLines : i # j => LabelName(source[i]) # LabelName(source[j])

ValidProgram ==
    /\ UniqueLabels
    /\ \A i \in 1..Len(source) : IsBlank(source[i]) \/ Emits(i)

C4_ValidProgramCompletes ==
    ValidProgram =>
        /\ pc \notin {"aborted", "crashed"}
        /\ pc = "done" =>
               Len(output) = Cardinality({ i \in 1..Len(source) : ~IsBlank(source[i]) })

(***************************************************************************)
(* C5.  The k-th distinct variable-or-constant identifier first resolved   *)
(* (k from 0) holds address 100+k; the data pointer is 100 plus the number *)
(* of variable and constant entries; no two entries share an address; and  *)
(* resolving a known variable or constant returns its address and changes  *)
(* neither map nor the data pointer.                                       *)
(***************************************************************************)
C5_DataRegion ==
    /\ data_pointer
           = data_start + Cardinality(DOMAIN variables) + Cardinality(DOMAIN constants)
    /\ { EntryAddress(e) : e \in DataEntries } = data_start..(data_pointer - 1)
    /\ \A e1, e2 \in DataEntries : e1 # e2 => EntryAddress(e1) # EntryAddress(e2)
    /\ \A e \in DataEntries :
           LET r == getIdLocation(e[2], labels, variables, constants, data_pointer)
           IN  /\ ~r.raised
               /\ r.address = EntryAddress(e)
               /\ r.variables = variables
               /\ r.constants = constants
               /\ r.data_pointer = data_pointer

\* Entries keep their address; entries new in a step take the addresses
\* from the old data pointer on, in the order they were resolved (the D
\* operand before the F operand).
C5_AllocationOrder ==
    /\ \A k \in DOMAIN variables :
           k \in DOMAIN variables' /\ variables'[k] = variables[k]
    /\ \A k \in DOMAIN constants :
           k \in DOMAIN constants' /\ constants'[k] = constants[k]
    /\ \A k \in (DOMAIN variables') \ DOMAIN variables : variables'[k] >= data_pointer
    /\ \A k \in (DOMAIN constants') \ DOMAIN constants : constants'[k] >= data_pointer
    /\ data_pointer' = data_pointer + 2 =>
           LET o == res[op_index + 1]
           IN  /\ (IF isnumeric(o[3]) THEN constants' ELSE variables')[o[3]]
                      = data_pointer
               /\ (IF isnumeric(o[2]) THEN constants' ELSE variables')[o[2]]
                      = data_pointer + 1

C5_Allocation ==
    [][C5_DataRegion /\ C5_DataRegion' /\ C5_AllocationOrder]_vars

\* A run that allocated a variable and a constant and resolved one
\* identifier of the data region in two instructions.
C5_Witness ==
    /\ pc = "done"
    /\ DOMAIN variables # {} /\ DOMAIN constants # {}
    /\ \E i, j \in Emitted :
           /\ i < j /\ ~IsIO(res[i]) /\ ~IsIO(res[j])
           /\ \E e \in DataEntries : e[2] \in Operands(res[i]) \cap Operands(res[j])

(***************************************************************************)
(* C6.  An operand of ADD, CMP, MOV or BEQ spelled exactly as a label is   *)
(* spelled at its definition resolves to the address the scan bound to     *)
(* that label and allocates no variable or constant.  Fails for a label    *)
(* written with an upper-case letter: the scan stores it lower-cased.      *)
(***************************************************************************)
C6_LabelOperandResolves ==
    \A j \in LabelLines :
        LET spelled == SpelledLabel(source[j])
        IN  (\E i \in Emitted : ~IsIO(res[i]) /\ spelled \in Operands(res[i])) =>
                /\ spelled \notin DOMAIN variables
                /\ spelled \notin DOMAIN constants
                /\ LabelName(source[j]) \in DOMAIN labels
                /\ HeldAddress(spelled) = labels[LabelName(source[j])]

(***************************************************************************)
(* C7.  Resolving the explicit-address token @n (not a label name) gives   *)
(* min(n, 127), adds no entry to the label, variable or constant maps and  *)
(* does not advance the data pointer.                                      *)
(***************************************************************************)
\* The tokens @n of the parsed instructions and, once a run is done, @n
\* for a sample of n on both sides of 127.
ExplicitSample == {0, 9, 10, 99, 100, 126, 127, 128, 129, 255, 256, 1000, 65535}
ExplicitTokens ==
    UNION { { t \in Operands(res[i]) : IsExplicit(t) } : i \in 1..Len(res) }
    \cup (IF pc = "done" THEN { <<"@">> \o Dec(n) : n \in ExplicitSample } ELSE {})

C7_ExplicitAddress ==
    /\ \A t \in ExplicitTokens :
           LET r == getIdLocation(t, labels, variables, constants, data_pointer)
           IN  /\ ~r.raised
               /\ r.address = ExplicitValue(t)
               /\ r.variables = variables
               /\ r.constants = constants
               /\ r.data_pointer = data_pointer
               /\ t \notin DOMAIN variables \cup DOMAIN constants
    /\ \A i \in Emitted :
           (~IsIO(res[i]) /\ Len(res[i]) = 3
                /\ \E t \in Operands(res[i]) : IsExplicit(t)) =>
               output[i] = opcodes[res[i][1]]
                           \o zfill(bin(HeldAddress(res[i][2])), 7)
                           \o zfill(bin(HeldAddress(res[i][3])), 7)

\* A word has been emitted for an instruction with an address above 127
\* and one not above it.
C7_Witness ==
    \E i \in Emitted :
        /\ ~IsIO(res[i])
        /\ \E t \in Operands(res[i]) : IsExplicit(t) /\ int(Tail(t)) > 127
        /\ \E t \in Operands(res[i]) : IsExplicit(t) /\ int(Tail(t)) <= 127

(***************************************************************************)
(* C8.  A source that defines the same label name (left-trimmed and        *)
(* lower-cased) on two lines aborts with the duplicate-label condition     *)
(* during the label scan, before any word is emitted, wherever the two     *)
(* definitions are and whatever precedes them.                             *)
(***************************************************************************)
RepeatLines ==
    { j \in LabelLines :
        \E i \in LabelLines : i < j /\ LabelName(source[i]) = LabelName(source[j]) }

C8_DuplicateLabelAborts ==
    RepeatLines # {} =>
        /\ pc \in {"parseLabels", "aborted"}
        /\ output = << >>
        /\ file_pos < Least(RepeatLines)
        /\ pc = "aborted" =>
               /\ message.kind = "multiple definitions"
               /\ message.label = LabelName(source[Least(RepeatLines)])
               /\ file_pos = Least(RepeatLines) - 1

\* Aborted on a second definition that follows an instruction line and a
\* first definition written differently.
C8_Witness ==
    /\ pc = "aborted"
    /\ message.kind = "multiple definitions"
    /\ file_pos = 2
    /\ Emits(1)
    /\ \E i \in LabelLines :
           /\ i < 3
           /\ LabelName(source[i]) = LabelName(source[3])
           /\ SpelledLabel(source[i]) # SpelledLabel(source[3])

(***************************************************************************)
(* C9.  When the encode pass aborts with the unknown-operation or the      *)
(* missing-operand condition, the reported line number is the 1-based      *)
(* position of the first line whose mnemonic is unrecognized or whose      *)
(* operands are too few, whatever skipped lines precede it, and no word    *)
(* has been emitted.                                                       *)
(***************************************************************************)
\* What is wrong with the mnemonic (first token, upper-cased) of a line.
Fault(line) ==
    LET tokens == tokenize(skipLabel(stripComment(line)))
        mnemonic == upper(tokens[1])
    IN  IF Len(tokens) = 0 THEN "none"
        ELSE IF mnemonic \notin OPERATIONS THEN "unknown operation"
        ELSE IF Len(tokens) - 1 < OPERAND_NUMBER[mnemonic] THEN "missing operand/s"
        ELSE "none"
FaultyLines == { i \in 1..Len(source) : Fault(source[i]) # "none" }

C9_ReportedLine ==
    (pc = "aborted" /\ message.kind \in {"unknown operation", "missing operand/s"}) =>
        /\ FaultyLines # {}
        /\ message.line = Least(FaultyLines)
        /\ message.kind = Fault(source[message.line])
        /\ output = << >>

\* Aborted on the third line after a comment line and a label-and-comment
\* line, both skipped.
C9_Witness ==
    /\ pc = "aborted"
    /\ message.kind \in {"unknown operation", "missing operand/s"}
    /\ message.line = 3
    /\ parseLine(source[1]).kind = "skip"
    /\ parseLine(source[2]).kind = "skip"
    /\ source[1] # source[2]

(***************************************************************************)
(* C10.  In a run that reaches Done the passes stay aligned: a line emits  *)
(* a word exactly if the scan counted it, the word sits at the position    *)
(* the scan counter had at that line, and a label's address is the         *)
(* position of the instruction on its line.  Fails: "lp:#c" is counted     *)
(* and emits nothing, "/ CMP y 2" is not counted and emits a word.         *)
(***************************************************************************)
C10_PassesAligned ==
    pc = "done" =>
        /\ current_address = Len(output)
        /\ \A i \in 1..Len(source) :
               /\ Emits(i) <=> (source[i][1] \notin {"#", "/"})
               /\ Emits(i) => EmitPosition(i) = ScanAddress(i)
        /\ \A i \in LabelLines :
               Emits(i) /\ labels[LabelName(source[i])] = EmitPosition(i)

====
